---- MODULE Spec2Model ----
(* Request-routing core of the inference gateway extension:               *)
(*   - the prefix-cache scorer plugin (hashPrompt, matchLongestPrefix,    *)
(*     Score, PreRequest) and its indexer and plugin state store,         *)
(*   - the Director (HandleRequest and its stages).                       *)
(* Strings of bytes are sequences of one-character strings.  xxhash64 is  *)
(* modelled as collision-free: the digest of a byte sequence is the byte  *)
(* sequence itself.                                                       *)
EXTENDS Integers, Sequences, FiniteSets, TLC

\* ------------------------------------------------------------------ bounds
\* plugin configuration used by the model (Config.HashBlockSize etc.)
BlockSize == 2
MaxPrefixBlocks == 3
LRUCapacity == 2
\* inputs of the hashing specification: block sizes 1..MaxHashBlockSize,
\* block limits 1..MaxHashBlocks, prompts of at most MaxPromptLen bytes
MaxHashBlockSize == 3
MaxHashBlocks == 2
MaxPromptLen == 3

\* ------------------------------------------------------- program constants
DefaultLRUCapacityPerServer == 31250

PrefixCachePluginType == "prefix-cache-scorer"

\* ------------------------------------------------------------- utilities
Range(s) == {s[i] : i \in 1..Len(s)}

\* s[from..to], 1-based, empty when from > to
Slice(s, from, to) == [i \in 1..(to - from + 1) |-> s[from + i - 1]]

NoValue == [t |-> "none"]

\* ------------------------------------------------------------ the plugin
\* Config of the plugin under test
Config == [HashBlockSize |-> BlockSize,
           MaxPrefixBlocksToMatch |-> MaxPrefixBlocks,
           LRUCapacityPerServer |-> LRUCapacity]

\* New with the capacity off by one
NewOffByOne(config) ==
    IF config.LRUCapacityPerServer <= 0
    THEN DefaultLRUCapacityPerServer
    ELSE config.LRUCapacityPerServer + 1

\* New: the capacity handed to newIndexer
New(config) ==
    IF config.LRUCapacityPerServer <= 0
    THEN DefaultLRUCapacityPerServer
    ELSE config.LRUCapacityPerServer

\* New: the plugin it returns, with the config as given
NewPlugin(config) == [config |-> config, capacity |-> New(config)]

\* xxhash: Sum64 of the bytes written so far (collision-free model)
Sum64(bytes) == bytes

\* the previous hash left out of the next one
toBytesUnchained(h) == << >>

\* toBytes: the 8 little-endian bytes of a block hash.  The fixed width
\* keeps the block and the previous hash apart in what is hashed; here a
\* separator byte, which no model name or prompt contains, does.
toBytes(h) == << "|" >> \o h

\* []byte(request.TargetModel): a model name is kept as its bytes
ModelBytes(m) == m

\* json.Marshal of the chat messages
RECURSIVE MarshalMessages(_)
MarshalMessages(msgs) ==
    IF msgs = << >> THEN << >>
    ELSE << "{" >> \o Head(msgs).role \o << "," >> \o Head(msgs).content \o << "}" >>
         \o MarshalMessages(Tail(msgs))

getUserInputBytes(request) ==
    IF request.Data.kind = "completions"
    THEN request.Data.prompt
    ELSE << "[" >> \o MarshalMessages(request.Data.messages) \o << "]" >>

\* the block loop of hashPrompt: i is the 0-based offset of the next block
RECURSIVE hashBlocks(_, _, _, _, _)
hashBlocks(userInput, i, cacheBlockSize, prevBlockHash, res) ==
    IF i + cacheBlockSize <= Len(userInput)
    THEN LET h == Sum64(Slice(userInput, i + 1, i + cacheBlockSize)
                        \o toBytes(prevBlockHash))
         IN hashBlocks(userInput, i + cacheBlockSize, cacheBlockSize, h,
                       Append(res, h))
    ELSE res

\* hashPrompt without the truncation to maxPrefixBlocks blocks
hashPromptNoTruncate(request, cacheBlockSize, maxPrefixBlocks) ==
    IF request.Data.kind = "nil" THEN << >>
    ELSE LET userInput == getUserInputBytes(request)
         IN IF Len(userInput) < cacheBlockSize THEN << >>
            ELSE hashBlocks(userInput, 0, cacheBlockSize,
                            Sum64(ModelBytes(request.TargetModel)), << >>)

hashPrompt(request, cacheBlockSize, maxPrefixBlocks) ==
    IF request.Data.kind = "nil" THEN << >>
    ELSE LET userInput == getUserInputBytes(request)
         IN IF Len(userInput) < cacheBlockSize THEN << >>
            ELSE LET truncated ==
                         IF Len(userInput) > cacheBlockSize * maxPrefixBlocks
                         THEN Slice(userInput, 1, maxPrefixBlocks * cacheBlockSize)
                         ELSE userInput
                 IN hashBlocks(truncated, 0, cacheBlockSize,
                               Sum64(ModelBytes(request.TargetModel)), << >>)

\* the run-time fault hashPrompt ends in, "none" when it returns; the
\* checks are Go's: a slice bound below zero, a division by zero and a
\* negative capacity handed to make all panic
hashPromptFault(request, cacheBlockSize, maxPrefixBlocks) ==
    IF request.Data.kind = "nil" THEN "none"
    ELSE LET length == Len(getUserInputBytes(request))
             limit == cacheBlockSize * maxPrefixBlocks
             kept == IF length > limit THEN limit ELSE length
         IN IF length < cacheBlockSize THEN "none"
            ELSE IF length > limit /\ limit < 0
            THEN "slice bounds out of range"      \* userInput[:limit]
            ELSE IF cacheBlockSize = 0
            THEN "integer divide by zero"         \* len(userInput)/cacheBlockSize
            ELSE IF cacheBlockSize < 0 /\ kept >= 0 - cacheBlockSize
            THEN "makeslice: cap out of range"    \* a negative quotient
            ELSE IF cacheBlockSize < 0
            THEN "slice bounds out of range"      \* userInput[0 : cacheBlockSize]
            ELSE "none"

\* ------------------------------------------------------------ the indexer
\* An index is [hashToPods, podToLRU]: hashToPods maps each known hash to the
\* servers that may hold it, podToLRU gives each server its hashes from the
\* least to the most recently touched.
Servers == {"p1", "p2"}

EmptyIndex == [hashToPods |-> << >>, podToLRU |-> [s \in Servers |-> << >>]]

\* Indexer.Get
Get(hashToPodsMap, hash) ==
    IF hash \in DOMAIN hashToPodsMap THEN hashToPodsMap[hash] ELSE {}

RemoveAt(s, k) == [i \in 1..(Len(s) - 1) |-> IF i < k THEN s[i] ELSE s[i + 1]]

IndexOf(s, e) == CHOOSE i \in 1..Len(s) : s[i] = e

\* the server loses its membership of hash; an emptied set is dropped
evict(hashToPodsMap, hash, server) ==
    IF hash \notin DOMAIN hashToPodsMap THEN hashToPodsMap
    ELSE IF hashToPodsMap[hash] \ {server} = {}
         THEN [h \in (DOMAIN hashToPodsMap) \ {hash} |-> hashToPodsMap[h]]
         ELSE [hashToPodsMap EXCEPT ![hash] = @ \ {server}]

\* a pair that is already present is inserted once more
addOneNoCheck(idx, hash, server, capacity) ==
    LET grown == Append(idx.podToLRU[server], hash)
        withHash == (hash :> (Get(idx.hashToPods, hash) \cup {server}))
                    @@ idx.hashToPods
    IN IF Len(grown) > capacity
       THEN [hashToPods |-> evict(withHash, Head(grown), server),
             podToLRU |-> [idx.podToLRU EXCEPT ![server] = Tail(grown)]]
       ELSE [hashToPods |-> withHash,
             podToLRU |-> [idx.podToLRU EXCEPT ![server] = grown]]

\* adding a pair that is already present leaves its recency as it was
addOneNoTouch(idx, hash, server, capacity) ==
    LET lru == idx.podToLRU[server]
    IN IF hash \in Range(lru)
       THEN idx
       ELSE LET grown == Append(lru, hash)
                withHash == (hash :> (Get(idx.hashToPods, hash) \cup {server}))
                            @@ idx.hashToPods
            IN IF Len(grown) > capacity
               THEN [hashToPods |-> evict(withHash, Head(grown), server),
                     podToLRU |-> [idx.podToLRU EXCEPT ![server] = Tail(grown)]]
               ELSE [hashToPods |-> withHash,
                     podToLRU |-> [idx.podToLRU EXCEPT ![server] = grown]]

\* one hash of Indexer.Add
addOne(idx, hash, server, capacity) ==
    LET lru == idx.podToLRU[server]
    IN IF hash \in Range(lru)
       THEN \* already present: refresh recency only
            [idx EXCEPT !.podToLRU[server] =
                 Append(RemoveAt(lru, IndexOf(lru, hash)), hash)]
       ELSE LET grown == Append(lru, hash)
                withHash == (hash :> (Get(idx.hashToPods, hash) \cup {server}))
                            @@ idx.hashToPods
            IN IF Len(grown) > capacity
               THEN [hashToPods |-> evict(withHash, Head(grown), server),
                     podToLRU |-> [idx.podToLRU EXCEPT ![server] = Tail(grown)]]
               ELSE [hashToPods |-> withHash,
                     podToLRU |-> [idx.podToLRU EXCEPT ![server] = grown]]

\* Indexer.Add
RECURSIVE Add(_, _, _, _)
Add(idx, hashes, server, capacity) ==
    IF hashes = << >> THEN idx
    ELSE Add(addOne(idx, Head(hashes), server, capacity), Tail(hashes),
             server, capacity)

\* ---------------------------------------------------- plugin state store
\* PluginState: request id -> (state key -> state data)
Write(store, requestID, key, val) ==
    IF requestID \in DOMAIN store
    THEN [store EXCEPT ![requestID] = (key :> val) @@ @]
    ELSE (requestID :> (key :> val)) @@ store

\* ReadPluginStateKey: the data under the key, or a read error
ReadPluginStateKey(store, requestID, key) ==
    IF requestID \in DOMAIN store /\ key \in DOMAIN store[requestID]
    THEN [err |-> FALSE, state |-> store[requestID][key]]
    ELSE [err |-> TRUE, state |-> NoValue]

Delete(store, requestID) ==
    [id \in (DOMAIN store) \ {requestID} |-> store[id]]

\* ------------------------------------------------- Score and PreRequest
\* matchLongestPrefix: the loop over the hashes, from index i (1-based)
RECURSIVE matchLoop(_, _, _, _)
matchLoop(hashToPodsMap, hashes, i, res) ==
    IF i > Len(hashes) THEN res
    ELSE LET cachedServers == Get(hashToPodsMap, hashes[i])
         IN IF cachedServers = {} THEN res
            ELSE matchLoop(hashToPodsMap, hashes, i + 1,
                     [s \in (DOMAIN res) \cup cachedServers |->
                         IF s \in cachedServers
                         THEN (IF s \in DOMAIN res THEN res[s] ELSE 0) + 1
                         ELSE res[s]])

matchLongestPrefix(hashToPodsMap, hashes) ==
    matchLoop(hashToPodsMap, hashes, 1, << >>)

\* map lookup with Go's zero value for a missing key
Lookup(m, k) == IF k \in DOMAIN m THEN m[k] ELSE 0

\* Score of a plugin built with the given config: the state it writes and
\* the scores it returns; a score is the fraction <<matchLen, total>>,
\* <<0, 1>> when there are no hashes.
ScoreConfigured(config, hashToPodsMap, request, pods) ==
    LET hashes == hashPrompt(request, config.HashBlockSize,
                             config.MaxPrefixBlocksToMatch)
        state == [PrefixHashes |-> hashes,
                  PrefixCacheServers |-> matchLongestPrefix(hashToPodsMap, hashes)]
        total == Len(state.PrefixHashes)
    IN [state |-> state,
        scores |-> [i \in 1..Len(pods) |->
                      IF total = 0 THEN << 0, 1 >>
                      ELSE << Lookup(state.PrefixCacheServers, pods[i].name),
                              total >>]]

\* Score dividing by the configured number of blocks
ScoreOverMaxBlocks(hashToPodsMap, request, pods) ==
    LET hashes == hashPrompt(request, Config.HashBlockSize,
                             Config.MaxPrefixBlocksToMatch)
        state == [PrefixHashes |-> hashes,
                  PrefixCacheServers |-> matchLongestPrefix(hashToPodsMap, hashes)]
        total == Len(state.PrefixHashes)
    IN [state |-> state,
        scores |-> [i \in 1..Len(pods) |->
                      IF total = 0 THEN << 0, 1 >>
                      ELSE << Lookup(state.PrefixCacheServers, pods[i].name),
                              Config.MaxPrefixBlocksToMatch >>]]

\* Score of the plugin under test
Score(hashToPodsMap, request, pods) ==
    ScoreConfigured(Config, hashToPodsMap, request, pods)

\* ------------------------------------------------------------- the state
VARIABLES
    active,       \* the HandleRequest executions this run contains
    pc,           \* per request: the stage HandleRequest is at
    reqCtx,       \* per request: the RequestContext
    requestData,  \* per request: HandleRequest's local requestData
    candidatePods,\* per request: HandleRequest's local candidatePods
    result,       \* per request: HandleRequest's local result
    ret,          \* per request: what HandleRequest returned
    trace,        \* per request: the collaborators invoked so far, in order
    obs,          \* what the last step read from its collaborators
    pluginState,  \* the plugin's state store
    hashToPods,   \* the indexer: hash -> servers
    podToLRU,     \* the indexer: server -> hashes, least recent first
    emitted       \* per request: the PrefixCacheMatch metrics recorded

vars == << active, pc, reqCtx, requestData, candidatePods, result, ret, trace, obs,
           pluginState, hashToPods, podToLRU, emitted >>

Requests == {"r1", "r2"}

\* --------------------------------------------------------------- inputs
Absent == [t |-> "absent", v |-> << >>]

\* a JSON value that is not of the expected type (a number)
Other == [t |-> "other", v |-> << >>]

Str(bytes) == [t |-> "str", v |-> bytes]

List(elems) == [t |-> "list", v |-> elems]

\* a JSON boolean and a JSON object
Bool == [t |-> "bool", v |-> << >>]

Object == [t |-> "object", v |-> << >>]

\* a chat message: a JSON object with the entries role and content
Message(role, content) == [t |-> "object", role |-> role, content |-> content]

Msg(role, content) == Message(Str(<< role >>), Str(content))

\* the optional entries of a chat-completions body
OptionalFields ==
    { "tools", "documents", "chat_template", "return_assistant_tokens_mask",
      "continue_final_message", "add_generation_prompt", "chat_template_kwargs" }

NoOptional == [f \in OptionalFields |-> Absent]

\* every optional entry present and well-formed
AllOptional ==
    [f \in OptionalFields |->
        CASE f \in {"tools", "documents"} -> List(<< Object >>)
          [] f = "chat_template" -> Str(<< "t" >>)
          [] f = "chat_template_kwargs" -> Object
          [] OTHER -> Bool]

BodyWith(model, prompt, messages, optional) ==
    [model |-> model, prompt |-> prompt, messages |-> messages,
     optional |-> optional]

Body(model, prompt, messages) == BodyWith(model, prompt, messages, NoOptional)

\* the request bodies of the model.  A model name is one byte.
BodyCases ==
    { Body(Absent, Str(<< "a", "a" >>), Absent),
      Body(Other, Str(<< "a", "a" >>), Absent),
      Body(Str(<< >>), Str(<< "a", "a", "b", "b" >>), Absent),
      Body(Str(<< "m" >>), Str(<< "a", "a", "b", "b" >>), Absent),
      Body(Str(<< "m" >>), Str(<< "a", "a", "b", "b", "c", "c", "d" >>), Absent),
      Body(Str(<< "m" >>), Str(<< "a" >>), Absent),
      Body(Str(<< "m" >>), Absent, Absent),
      Body(Str(<< "m" >>), Other, List(<< Msg("u", << "a" >>) >>)),
      Body(Str(<< "m" >>), Str(<< >>), List(<< >>)),
      Body(Str(<< "m" >>), Absent, List(<< Message(Other, Str(<< "a" >>)) >>)) }

\* RequestContext.TargetModelName as preset by the caller
PresetTargetModels == { << >>, << "n" >> }

\* the x-request-id header; "" when the header is missing
RequestIds == {"", "x1"}

P1 == [name |-> "p1", address |-> << "1" >>]

P2 == [name |-> "p2", address |-> << "2" >>]

\* what datastore.PodList(AllPodsPredicate) may return, in iteration order
PodListCases == { << >>, << P2 >>, << P1, P2 >> }

Metadata(ns, key, list) == [ns |-> ns, key |-> key, list |-> list]

\* request metadata: ns is the subset-filter namespace entry, key the entry
\* under the subset-filter key, list its elements
MetadataCases ==
    { Metadata("absent", "absent", << >>),
      Metadata("other", "absent", << >>),
      Metadata("object", "absent", << >>),
      Metadata("object", "other", << >>),
      Metadata("object", "list", << >>),
      Metadata("object", "list", << Str(<< "1", ":", "8" >>) >>),
      Metadata("object", "list", << Str(<< "2" >>), Str(<< "3", ":", "8" >>) >>),
      Metadata("object", "list", << Str(<< "3", ":", "2" >>) >>),
      Metadata("object", "list", << Str(<< "1", ":", "8" >>), Other >>) }

\* what datastore.ObjectiveGet may return
Objective(t, p) == [t |-> t, priority |-> p]

ObjectiveCases ==
    { Objective("absent", 0), Objective("unset", 0), Objective("set", -1),
      Objective("set", 0), Objective("set", 1) }

\* what datastore.PoolGet may return: an error, or the pool's target ports
PoolCases ==
    { [err |-> TRUE, TargetPorts |-> << >>],
      [err |-> FALSE, TargetPorts |-> << >>],
      [err |-> FALSE, TargetPorts |-> << "8" >>],
      [err |-> FALSE, TargetPorts |-> << "8", "9" >>] }

\* what Scheduler.Schedule may return without error for the candidates
NilResult == [t |-> "nil", PrimaryProfileName |-> "", ProfileResults |-> << >>]

Result(primary, profiles) ==
    [t |-> "result", PrimaryProfileName |-> primary, ProfileResults |-> profiles]

TargetLists(pods) ==
    { << pods[i] >> : i \in 1..Len(pods) }
    \cup { << pods[i], pods[j] >> : i \in 1..Len(pods), j \in 1..Len(pods) }

ResultCases(pods) ==
    { NilResult,
      Result("primary", << >>),
      Result("primary", "other" :> [TargetPods |-> << pods[1] >>]),
      Result("primary", "primary" :> [TargetPods |-> << >>]) }
    \cup { Result("primary", "primary" :> [TargetPods |-> t]) : t \in TargetLists(pods) }

\* a PreRequest plugin that keeps no state in the store or the indexer
OtherPreRequestType == "other-pre-request"

\* the PreRequest plugins registered with the Director
preRequestPlugins == << PrefixCachePluginType, OtherPreRequestType >>

\* the PostResponse plugins registered with the Director
postResponsePlugins == << "post-response-a", "post-response-b" >>

\* --------------------------------------------------------- request data
NilData == [kind |-> "nil", prompt |-> << >>, messages |-> << >>]

Completions(prompt) == [kind |-> "completions", prompt |-> prompt, messages |-> << >>]

ChatCompletions(messages) == [kind |-> "chat", prompt |-> << >>, messages |-> messages]

Err(code, msg) == [Code |-> code, Msg |-> msg]

NoErr == Err("OK", "")

\* json.Unmarshal of a value into a string field: an absent entry leaves the
\* field at its zero value, a value of another type is an error
stringDecodes(value) == value.t \in {"absent", "str"}

\* json.Unmarshal of an optional entry into its field of
\* ChatCompletionsRequest: sequences for tools and documents, a string for
\* chat_template, an object for chat_template_kwargs, booleans for the flags
optionalDecodes(field, value) ==
    \/ value.t = "absent"
    \/ CASE field \in {"tools", "documents"} -> value.t = "list"
         [] field = "chat_template" -> value.t = "str"
         [] field = "chat_template_kwargs" -> value.t = "object"
         [] OTHER -> value.t = "bool"

\* json.Unmarshal into ChatCompletionsRequest succeeds
chatDecodes(body) ==
    /\ body.messages.t \in {"absent", "list"}
    /\ \A i \in 1..Len(body.messages.v) :
          /\ body.messages.v[i].t = "object"
          /\ stringDecodes(body.messages.v[i].role)
          /\ stringDecodes(body.messages.v[i].content)
    /\ \A f \in OptionalFields : optionalDecodes(f, body.optional[f])

decodedMessages(body) ==
    [i \in 1..Len(body.messages.v) |->
        [role |-> body.messages.v[i].role.v,
         content |-> body.messages.v[i].content.v]]

validateChatCompletionsMessages(messages) ==
    IF Len(messages) = 0
    THEN Err("BadRequest", "chat-completions request must have at least one message")
    ELSE NoErr

ExtractRequestData(body) ==
    IF body.prompt.t = "str" /\ body.prompt.v # << >>
    THEN [data |-> Completions(body.prompt.v), err |-> NoErr]
    ELSE IF ~chatDecodes(body)
    THEN [data |-> NilData, err |-> Err("BadRequest", "invalid request format")]
    ELSE IF validateChatCompletionsMessages(decodedMessages(body)) # NoErr
    THEN [data |-> NilData,
          err |-> Err("BadRequest", "invalid chat-completions request")]
    ELSE [data |-> ChatCompletions(decodedMessages(body)), err |-> NoErr]

\* ---------------------------------------------------------- the Director
NoPod == [name |-> "", address |-> << >>]

NoRequest == [set |-> FALSE, RequestId |-> "", TargetModel |-> << >>, Data |-> NilData]

LLMRequest(id, model, data) ==
    [set |-> TRUE, RequestId |-> id, TargetModel |-> model, Data |-> data]

\* the RequestContext HandleRequest is called with
NewRequestContext(body, target, id, metadata) ==
    [Body |-> body, Metadata |-> metadata, RequestIdHeader |-> id,
     IncomingModelName |-> << >>, TargetModelName |-> target,
     SchedulingRequest |-> NoRequest, TargetPod |-> NoPod,
     TargetEndpoint |-> << >>]

NoReturn == [ctx |-> "none", err |-> NoErr]

Return(ctx, err) == [ctx |-> ctx, err |-> err]

defaultPriority == 0

\* admitRequest with priority 0 treated as sheddable
admitRequestStrict(requestPriority, isSaturated) ==
    IF requestPriority > 0
    THEN [err |-> NoErr, consulted |-> FALSE]
    ELSE IF isSaturated
    THEN [err |-> Err("InferencePoolResourceExhausted",
                      "system saturated, sheddable request dropped"),
          consulted |-> TRUE]
    ELSE [err |-> NoErr, consulted |-> TRUE]

\* admitRequest: the error it returns and whether it asked the detector
admitRequest(requestPriority, isSaturated) ==
    IF requestPriority >= 0
    THEN [err |-> NoErr, consulted |-> FALSE]
    ELSE IF isSaturated
    THEN [err |-> Err("InferencePoolResourceExhausted",
                      "system saturated, sheddable request dropped"),
          consulted |-> TRUE]
    ELSE [err |-> NoErr, consulted |-> TRUE]

\* the endpoint taken whole, port included
wholeEndpoint(s) == s

\* strings.Split(endpoint, ":")[0]
RECURSIVE beforeColon(_)
beforeColon(s) ==
    IF s = << >> \/ Head(s) = ":" THEN << >>
    ELSE << Head(s) >> \o beforeColon(Tail(s))

SelectPods(pods, addresses) ==
    SelectSeq(pods, LAMBDA pm : pm.address \in addresses)

\* an empty subset filter treated like a missing one
emptySubsetAllPods(podList) == [pods |-> podList, listed |-> TRUE, panic |-> FALSE]

\* getCandidatePodsForScheduling on an empty subset list: no candidate, and
\* the datastore is not read
emptySubset(podList) == [pods |-> << >>, listed |-> FALSE, panic |-> FALSE]

\* getCandidatePodsForScheduling: the candidates, whether PodList was called,
\* and whether the endpoint type assertion panicked
getCandidatePodsForScheduling(requestMetadata, podList) ==
    IF requestMetadata.ns # "object"
    THEN [pods |-> podList, listed |-> TRUE, panic |-> FALSE]
    ELSE IF requestMetadata.key # "list"
    THEN [pods |-> podList, listed |-> TRUE, panic |-> FALSE]
    ELSE IF Len(requestMetadata.list) = 0
    THEN emptySubset(podList)
    ELSE IF \E i \in 1..Len(requestMetadata.list) : requestMetadata.list[i].t # "str"
    THEN [pods |-> << >>, listed |-> FALSE, panic |-> TRUE]
    ELSE LET endpoints == { beforeColon(requestMetadata.list[i].v) :
                              i \in 1..Len(requestMetadata.list) }
         IN [pods |-> SelectPods(podList, endpoints), listed |-> TRUE,
             panic |-> FALSE]

\* the capacity of the plugin's indexer
capacity == New(Config)

\* PreRequest without the Delete
PreRequestNoDelete(store, idx, request, schedulingResult) ==
    LET primaryProfileResult ==
            schedulingResult.ProfileResults[schedulingResult.PrimaryProfileName]
        targetPod == primaryProfileResult.TargetPods[1]
        read == ReadPluginStateKey(store, request.RequestId, PrefixCachePluginType)
    IN IF read.err
       THEN [pluginState |-> store, index |-> idx, metric |-> << >>]
       ELSE LET total == Len(read.state.PrefixHashes)
                matchLen == Lookup(read.state.PrefixCacheServers, targetPod.name)
            IN [pluginState |-> store,
                index |-> Add(idx, read.state.PrefixHashes, targetPod.name,
                              New(Config)),
                metric |-> << [matched |-> matchLen * Config.HashBlockSize,
                               total |-> total * Config.HashBlockSize] >>]

\* the hashes added for every pod of a list
RECURSIVE AddForAll(_, _, _, _)
AddForAll(idx, hashes, pods, cap) ==
    IF pods = << >> THEN idx
    ELSE AddForAll(Add(idx, hashes, Head(pods).name, cap), hashes, Tail(pods), cap)

\* PreRequest crediting every target pod of the primary profile
PreRequestAllTargets(store, idx, request, schedulingResult) ==
    LET primaryProfileResult ==
            schedulingResult.ProfileResults[schedulingResult.PrimaryProfileName]
        targetPod == primaryProfileResult.TargetPods[1]
        read == ReadPluginStateKey(store, request.RequestId, PrefixCachePluginType)
        deleted == Delete(store, request.RequestId)
    IN IF read.err
       THEN [pluginState |-> deleted, index |-> idx, metric |-> << >>]
       ELSE LET total == Len(read.state.PrefixHashes)
                matchLen == Lookup(read.state.PrefixCacheServers, targetPod.name)
            IN [pluginState |-> deleted,
                index |-> AddForAll(idx, read.state.PrefixHashes,
                                    primaryProfileResult.TargetPods, capacity),
                metric |-> << [matched |-> matchLen * Config.HashBlockSize,
                               total |-> total * Config.HashBlockSize] >>]

\* PreRequest hashing the request itself when it finds no state
PreRequestRehash(store, idx, request, schedulingResult) ==
    LET primaryProfileResult ==
            schedulingResult.ProfileResults[schedulingResult.PrimaryProfileName]
        targetPod == primaryProfileResult.TargetPods[1]
        read == ReadPluginStateKey(store, request.RequestId, PrefixCachePluginType)
        deleted == Delete(store, request.RequestId)
        hashes == IF read.err
                  THEN hashPrompt(request, Config.HashBlockSize,
                                  Config.MaxPrefixBlocksToMatch)
                  ELSE read.state.PrefixHashes
        matchLen == IF read.err THEN 0
                    ELSE Lookup(read.state.PrefixCacheServers, targetPod.name)
    IN [pluginState |-> deleted,
        index |-> Add(idx, hashes, targetPod.name, capacity),
        metric |-> << [matched |-> matchLen * Config.HashBlockSize,
                       total |-> Len(hashes) * Config.HashBlockSize] >>]

\* PreRequest returning early, without a metric, when there is no hash
PreRequestSkipEmpty(store, idx, request, schedulingResult) ==
    LET primaryProfileResult ==
            schedulingResult.ProfileResults[schedulingResult.PrimaryProfileName]
        targetPod == primaryProfileResult.TargetPods[1]
        read == ReadPluginStateKey(store, request.RequestId, PrefixCachePluginType)
        deleted == Delete(store, request.RequestId)
    IN IF read.err \/ read.state.PrefixHashes = << >>
       THEN [pluginState |-> deleted, index |-> idx, metric |-> << >>]
       ELSE LET total == Len(read.state.PrefixHashes)
                matchLen == Lookup(read.state.PrefixCacheServers, targetPod.name)
            IN [pluginState |-> deleted,
                index |-> Add(idx, read.state.PrefixHashes, targetPod.name, capacity),
                metric |-> << [matched |-> matchLen * Config.HashBlockSize,
                               total |-> total * Config.HashBlockSize] >>]

\* PreRequest crediting the last target pod instead of the first
PreRequestLastTarget(store, idx, request, schedulingResult) ==
    LET primaryProfileResult ==
            schedulingResult.ProfileResults[schedulingResult.PrimaryProfileName]
        targetPod == primaryProfileResult.TargetPods[Len(primaryProfileResult.TargetPods)]
        read == ReadPluginStateKey(store, request.RequestId, PrefixCachePluginType)
        deleted == Delete(store, request.RequestId)
    IN IF read.err
       THEN [pluginState |-> deleted, index |-> idx, metric |-> << >>]
       ELSE LET total == Len(read.state.PrefixHashes)
                matchLen == Lookup(read.state.PrefixCacheServers, targetPod.name)
            IN [pluginState |-> deleted,
                index |-> Add(idx, read.state.PrefixHashes, targetPod.name, capacity),
                metric |-> << [matched |-> matchLen * Config.HashBlockSize,
                               total |-> total * Config.HashBlockSize] >>]

\* Plugin.PreRequest on the store and the index; metric is the sequence of
\* PrefixCacheMatch records it emits
PreRequest(store, idx, request, schedulingResult) ==
    LET primaryProfileResult ==
            schedulingResult.ProfileResults[schedulingResult.PrimaryProfileName]
        targetPod == primaryProfileResult.TargetPods[1]
        read == ReadPluginStateKey(store, request.RequestId, PrefixCachePluginType)
        deleted == Delete(store, request.RequestId)
    IN IF read.err
       THEN [pluginState |-> deleted, index |-> idx, metric |-> << >>]
       ELSE LET total == Len(read.state.PrefixHashes)
                matchLen == Lookup(read.state.PrefixCacheServers, targetPod.name)
            IN [pluginState |-> deleted,
                index |-> Add(idx, read.state.PrefixHashes, targetPod.name, capacity),
                metric |-> << [matched |-> matchLen * Config.HashBlockSize,
                               total |-> total * Config.HashBlockSize] >>]

\* the plugins taken from the end of the list backwards
RECURSIVE runPreRequestPluginsReversed(_, _, _, _)
runPreRequestPluginsReversed(i, st, request, schedulingResult) ==
    IF i > Len(preRequestPlugins) THEN st
    ELSE LET plugin == preRequestPlugins[Len(preRequestPlugins) + 1 - i]
             after == IF plugin = PrefixCachePluginType
                      THEN PreRequest(st.pluginState, st.index, request,
                                      schedulingResult)
                      ELSE [pluginState |-> st.pluginState, index |-> st.index,
                            metric |-> << >>]
         IN runPreRequestPluginsReversed(i + 1,
                [pluginState |-> after.pluginState, index |-> after.index,
                 metric |-> st.metric \o after.metric,
                 called |-> Append(st.called, plugin)],
                request, schedulingResult)

\* runPreRequestPlugins: the plugins from position i on, in registration order
RECURSIVE runPreRequestPlugins(_, _, _, _)
runPreRequestPlugins(i, st, request, schedulingResult) ==
    IF i > Len(preRequestPlugins) THEN st
    ELSE LET after == IF preRequestPlugins[i] = PrefixCachePluginType
                      THEN PreRequest(st.pluginState, st.index, request,
                                      schedulingResult)
                      ELSE [pluginState |-> st.pluginState, index |-> st.index,
                            metric |-> << >>]
         IN runPreRequestPlugins(i + 1,
                [pluginState |-> after.pluginState, index |-> after.index,
                 metric |-> st.metric \o after.metric,
                 called |-> Append(st.called, preRequestPlugins[i])],
                request, schedulingResult)

\* runPostResponsePlugins: the plugins from position i on, in registration
\* order; calls is the sequence of PostResponse calls made so far
RECURSIVE runPostResponsePlugins(_, _, _, _, _)
runPostResponsePlugins(i, calls, request, response, targetPod) ==
    IF i > Len(postResponsePlugins) THEN calls
    ELSE runPostResponsePlugins(i + 1,
             Append(calls, [plugin |-> postResponsePlugins[i], request |-> request,
                            response |-> response, targetPod |-> targetPod]),
             request, response, targetPod)

\* the host alone, the port forgotten
hostOnly(address, port) == address

\* net.JoinHostPort(address, port): a host with a colon in it (an IPv6
\* literal) is put in brackets
JoinHostPort(address, port) ==
    IF ":" \in Range(address)
    THEN << "[" >> \o address \o << "]", ":" >> \o << port >>
    ELSE address \o << ":" >> \o << port >>

\* strings.Join(elems, ",")
RECURSIVE Join(_)
Join(elems) ==
    IF elems = << >> THEN << >>
    ELSE IF Len(elems) = 1 THEN elems[1]
    ELSE elems[1] \o << "," >> \o Join(Tail(elems))

\* an error return that drops the request context
returnNilContext(ctx, rc, pooled, err) ==
    [ctx |-> "nil", reqCtx |-> rc, panic |-> FALSE, run |-> FALSE,
     pooled |-> pooled, err |-> err]

\* prepareRequest's error returns: the request context and the error
returnError(ctx, rc, pooled, err) ==
    [ctx |-> ctx, reqCtx |-> rc, panic |-> FALSE, run |-> FALSE,
     pooled |-> pooled, err |-> err]

\* prepareRequest up to the plugin call: the context and error it returns,
\* whether it faulted, and whether it goes on to run the PreRequest plugins
prepareRequest(ctx, rc, res, pool) ==
    IF res.t = "nil" \/ DOMAIN res.ProfileResults = {}
    THEN returnError(ctx, rc, FALSE,
                     Err("Internal", "results must be greater than zero"))
    ELSE IF pool.err
    THEN returnError(ctx, rc, TRUE, Err("PoolGet", "pool is not synced"))
    ELSE IF Len(pool.TargetPorts) # 1
    THEN returnError(ctx, rc, TRUE,
                     Err("BadRequest", "targetPorts should have length 1"))
    ELSE IF res.PrimaryProfileName \notin DOMAIN res.ProfileResults
    THEN \* nil profile result dereferenced
         [ctx |-> ctx, reqCtx |-> rc, panic |-> TRUE, run |-> FALSE,
          pooled |-> TRUE, err |-> NoErr]
    ELSE LET pods == res.ProfileResults[res.PrimaryProfileName].TargetPods
             targetEndpoints ==
                 [i \in 1..Len(pods) |->
                     JoinHostPort(pods[i].address, pool.TargetPorts[1])]
         IN IF Len(pods) = 0
            THEN \* targetPods[0] is out of range
                 [ctx |-> ctx, reqCtx |-> rc, panic |-> TRUE, run |-> FALSE,
                  pooled |-> TRUE, err |-> NoErr]
            ELSE [ctx |-> ctx,
                  reqCtx |-> [rc EXCEPT !.TargetPod = pods[1],
                                        !.TargetEndpoint = Join(targetEndpoints)],
                  panic |-> FALSE, run |-> TRUE, pooled |-> TRUE, err |-> NoErr]

\* ------------------------------------------------ HandleRequest, by stage
\* the inputs a run draws from: one request alone sees every case, requests
\* in flight together see the cases that touch the shared store and index
Alone == Cardinality(active) = 1

InputBodies ==
    IF Alone THEN BodyCases
    ELSE { Body(Str(<< "m" >>), Str(<< "a", "a", "b", "b" >>), Absent),
           Body(Str(<< "m" >>), Str(<< "a", "a", "d", "d" >>), Absent) }

InputTargetModels == IF Alone THEN PresetTargetModels ELSE { << >> }

InputMetadata == IF Alone THEN MetadataCases ELSE { Metadata("absent", "absent", << >>) }

InputPodLists == IF Alone THEN PodListCases ELSE { << P1, P2 >> }

InputObjectives == IF Alone THEN ObjectiveCases ELSE { Objective("absent", 0) }

InputPools ==
    IF Alone THEN PoolCases
    ELSE { [err |-> TRUE, TargetPorts |-> << >>],
           [err |-> FALSE, TargetPorts |-> << "8" >>] }

\* HandleRequest going on to the scheduler without candidate pods
stageAfterNoCandidatesReturn(stage, failed) ==
    IF failed /\ stage # "candidates" THEN "done"
    ELSE CASE stage = "parse" -> "admit"
           [] stage = "admit" -> "candidates"
           [] stage = "candidates" -> "schedule"
           [] stage = "schedule" -> "prepare"
           [] OTHER -> "done"

\* HandleRequest going on after a request was refused admission
stageAfterNoShedReturn(stage, failed) ==
    IF failed /\ stage # "admit" THEN "done"
    ELSE CASE stage = "parse" -> "admit"
           [] stage = "admit" -> "candidates"
           [] stage = "candidates" -> "schedule"
           [] stage = "schedule" -> "prepare"
           [] OTHER -> "done"

\* HandleRequest's control flow: a stage that failed returns, the others go
\* on to the next stage
stageAfter(stage, failed) ==
    IF failed THEN "done"
    ELSE CASE stage = "parse" -> "admit"
           [] stage = "admit" -> "candidates"
           [] stage = "candidates" -> "schedule"
           [] stage = "schedule" -> "prepare"
           [] OTHER -> "done"

\* the preset target model ignored
targetModelIncoming(preset, incoming) == incoming

\* the target model: the preset one, the incoming one when none is preset
targetModel(preset, incoming) == IF preset = << >> THEN incoming ELSE preset

\* the proxy calls HandleRequest with a request context
Receive(r) ==
    /\ r \in active
    /\ pc[r] = "idle"
    /\ \E body \in InputBodies, target \in InputTargetModels,
          id \in RequestIds, metadata \in InputMetadata :
          reqCtx' = [reqCtx EXCEPT ![r] = NewRequestContext(body, target, id, metadata)]
    /\ pc' = [pc EXCEPT ![r] = "parse"]
    /\ obs' = [req |-> r, op |-> "receive"]
    /\ UNCHANGED << active, requestData, candidatePods, result, ret, trace,
                    pluginState, hashToPods, podToLRU, emitted >>

\* stage 1: the model check, the target model and the extraction
HandleRequestParse(r) ==
    /\ pc[r] = "parse"
    /\ LET body == reqCtx[r].Body
           ok == body.model.t = "str"
           incoming == IF ok THEN body.model.v ELSE << >>
           target == targetModel(reqCtx[r].TargetModelName, incoming)
           rewritten == [body EXCEPT !.model = Str(target)]
           extracted == ExtractRequestData(rewritten)
       IN IF ~ok
          THEN /\ reqCtx' = [reqCtx EXCEPT ![r].IncomingModelName = incoming]
               /\ ret' = [ret EXCEPT ![r] =
                           Return(r, Err("BadRequest", "model not found in request body"))]
               /\ pc' = [pc EXCEPT ![r] = stageAfter("parse", TRUE)]
               /\ UNCHANGED << requestData, trace >>
          ELSE /\ reqCtx' = [reqCtx EXCEPT ![r].IncomingModelName = incoming,
                                           ![r].TargetModelName = target,
                                           ![r].Body = rewritten]
               /\ trace' = [trace EXCEPT ![r] = Append(@, "ExtractRequestData")]
               /\ pc' = [pc EXCEPT ![r] = stageAfter("parse", extracted.err # NoErr)]
               /\ IF extracted.err # NoErr
                  THEN /\ ret' = [ret EXCEPT ![r] =
                                   Return(r, Err("BadRequest", "failed to extract request data"))]
                       /\ UNCHANGED requestData
                  ELSE /\ requestData' = [requestData EXCEPT ![r] = extracted.data]
                       /\ UNCHANGED ret
    /\ obs' = [req |-> r, op |-> "parse", model |-> reqCtx[r].Body.model,
               preset |-> reqCtx[r].TargetModelName]
    /\ UNCHANGED << active, candidatePods, result, pluginState, hashToPods,
                    podToLRU, emitted >>

\* stage 2: the objective, the LLMRequest and admission control
HandleRequestAdmit(r) ==
    /\ pc[r] = "admit"
    /\ \E infObjective \in InputObjectives, isSaturated \in BOOLEAN :
          LET priority == IF infObjective.t = "set" THEN infObjective.priority
                          ELSE defaultPriority
              admitted == admitRequest(priority, isSaturated)
          IN /\ reqCtx' = [reqCtx EXCEPT ![r].SchedulingRequest =
                              LLMRequest(reqCtx[r].RequestIdHeader,
                                         reqCtx[r].TargetModelName, requestData[r])]
             /\ trace' = [trace EXCEPT ![r] =
                            @ \o << "ObjectiveGet" >>
                              \o (IF admitted.consulted THEN << "IsSaturated" >> ELSE << >>)]
             /\ obs' = [req |-> r, op |-> "admit", objective |-> infObjective,
                        isSaturated |-> isSaturated]
             /\ pc' = [pc EXCEPT ![r] = stageAfter("admit", admitted.err # NoErr)]
             /\ ret' = IF admitted.err # NoErr
                       THEN [ret EXCEPT ![r] = Return(r, admitted.err)]
                       ELSE ret
    /\ requestData' = [requestData EXCEPT ![r] = NilData]
    /\ UNCHANGED << active, candidatePods, result, pluginState, hashToPods,
                    podToLRU, emitted >>

\* stage 3, first half: the candidate pods
HandleRequestCandidates(r) ==
    /\ pc[r] = "candidates"
    /\ \E podList \in InputPodLists :
          LET got == getCandidatePodsForScheduling(reqCtx[r].Metadata, podList)
          IN /\ obs' = [req |-> r, op |-> "candidates", podList |-> podList,
                        pods |-> got.pods, panic |-> got.panic]
             /\ trace' = [trace EXCEPT ![r] =
                            @ \o (IF got.listed THEN << "PodList" >> ELSE << >>)]
             /\ IF got.panic
                THEN /\ pc' = [pc EXCEPT ![r] = "panic"]
                     /\ UNCHANGED << ret, candidatePods >>
                ELSE /\ pc' = [pc EXCEPT ![r] =
                                 stageAfter("candidates", Len(got.pods) = 0)]
                     /\ IF Len(got.pods) = 0
                        THEN /\ ret' = [ret EXCEPT ![r] =
                                         Return(r, Err("ServiceUnavailable",
                                            "failed to find candidate pods for serving the request"))]
                             /\ UNCHANGED candidatePods
                        ELSE /\ candidatePods' = [candidatePods EXCEPT ![r] = got.pods]
                             /\ UNCHANGED ret
    /\ UNCHANGED << active, reqCtx, requestData, result, pluginState,
                    hashToPods, podToLRU, emitted >>

\* stage 3, second half: Scheduler.Schedule, which may run the scorer on the
\* candidates and returns an error or a result
HandleRequestSchedule(r) ==
    /\ pc[r] = "schedule"
    /\ \E scored \in BOOLEAN, failed \in BOOLEAN :
       \E res \in (IF failed THEN { NilResult } ELSE ResultCases(candidatePods[r])) :
          LET request == reqCtx[r].SchedulingRequest
              score == Score(hashToPods, request, candidatePods[r])
          IN /\ pluginState' = IF scored
                               THEN Write(pluginState, request.RequestId,
                                          PrefixCachePluginType, score.state)
                               ELSE pluginState
             /\ trace' = [trace EXCEPT ![r] =
                            @ \o << "Schedule" >>
                              \o (IF scored THEN << "Score" >> ELSE << >>)]
             /\ obs' = [req |-> r, op |-> "schedule", scored |-> scored,
                        failed |-> failed, pods |-> candidatePods[r],
                        score |-> score]
             /\ pc' = [pc EXCEPT ![r] = stageAfter("schedule", failed)]
             /\ IF failed
                THEN /\ ret' = [ret EXCEPT ![r] =
                                 Return(r, Err("InferencePoolResourceExhausted",
                                               "failed to find target pod"))]
                     /\ UNCHANGED result
                ELSE /\ result' = [result EXCEPT ![r] = res]
                     /\ UNCHANGED ret
    /\ candidatePods' = [candidatePods EXCEPT ![r] = << >>]
    /\ UNCHANGED << active, reqCtx, requestData, hashToPods, podToLRU, emitted >>

\* stage 4: prepareRequest and the PreRequest plugins
HandleRequestPrepare(r) ==
    /\ pc[r] = "prepare"
    /\ \E pool \in InputPools :
          LET prepared == prepareRequest(r, reqCtx[r], result[r], pool)
              ran == runPreRequestPlugins(1,
                         [pluginState |-> pluginState,
                          index |-> [hashToPods |-> hashToPods, podToLRU |-> podToLRU],
                          metric |-> << >>, called |-> << >>],
                         reqCtx[r].SchedulingRequest, result[r])
          IN /\ obs' = [req |-> r, op |-> "prepare", pool |-> pool,
                        result |-> result[r], panic |-> prepared.panic,
                        run |-> prepared.run,
                        read |-> ReadPluginStateKey(pluginState,
                                    reqCtx[r].SchedulingRequest.RequestId,
                                    PrefixCachePluginType)]
             /\ reqCtx' = [reqCtx EXCEPT ![r] = prepared.reqCtx]
             /\ IF prepared.panic
                THEN /\ pc' = [pc EXCEPT ![r] = "panic"]
                     /\ trace' = [trace EXCEPT ![r] = Append(@, "PoolGet")]
                     /\ UNCHANGED << ret, pluginState, hashToPods, podToLRU, emitted >>
                ELSE /\ pc' = [pc EXCEPT ![r] =
                                 stageAfter("prepare", prepared.err # NoErr)]
                     /\ ret' = [ret EXCEPT ![r] = Return(prepared.ctx, prepared.err)]
                     /\ IF prepared.run
                        THEN /\ pluginState' = ran.pluginState
                             /\ hashToPods' = ran.index.hashToPods
                             /\ podToLRU' = ran.index.podToLRU
                             /\ emitted' = [emitted EXCEPT ![r] = @ \o ran.metric]
                             /\ trace' = [trace EXCEPT ![r] =
                                            @ \o << "PoolGet" >> \o ran.called]
                        ELSE /\ trace' = [trace EXCEPT ![r] =
                                            @ \o (IF prepared.pooled
                                                  THEN << "PoolGet" >> ELSE << >>)]
                             /\ UNCHANGED << pluginState, hashToPods, podToLRU, emitted >>
    /\ result' = [result EXCEPT ![r] = NilResult]
    /\ UNCHANGED << active, requestData, candidatePods >>

\* the proxy calls HandleResponse once the target pod has answered a request
\* that HandleRequest let through
HandleResponse(r) ==
    /\ pc[r] = "done"
    /\ ret[r].err = NoErr
    /\ LET response == [RequestId |-> reqCtx[r].RequestIdHeader]
           calls == runPostResponsePlugins(1, << >>, reqCtx[r].SchedulingRequest,
                                           response, reqCtx[r].TargetPod)
       IN /\ obs' = [req |-> r, op |-> "response", response |-> response,
                     calls |-> calls]
          /\ trace' = [trace EXCEPT ![r] =
                         @ \o [i \in 1..Len(calls) |-> calls[i].plugin]]
    /\ pc' = [pc EXCEPT ![r] = "responded"]
    /\ UNCHANGED << active, reqCtx, requestData, candidatePods, result, ret,
                    pluginState, hashToPods, podToLRU, emitted >>

\* ------------------------------------------------------ specifications
InitFields ==
    /\ pc = [r \in Requests |-> "idle"]
    /\ reqCtx = [r \in Requests |->
                   NewRequestContext(Body(Absent, Absent, Absent), << >>, "",
                                     Metadata("absent", "absent", << >>))]
    /\ requestData = [r \in Requests |-> NilData]
    /\ candidatePods = [r \in Requests |-> << >>]
    /\ result = [r \in Requests |-> NilResult]
    /\ ret = [r \in Requests |-> NoReturn]
    /\ trace = [r \in Requests |-> << >>]
    /\ pluginState = << >>
    /\ hashToPods = EmptyIndex.hashToPods
    /\ podToLRU = EmptyIndex.podToLRU
    /\ emitted = [r \in Requests |-> << >>]

\* a freshly constructed Director and plugin, nothing called yet
InitState == InitFields /\ obs = [req |-> "none", op |-> "init"]

\* one HandleRequest on a freshly constructed Director and plugin
Init == InitState /\ active = {"r1"}

Next ==
    \E r \in Requests :
       \/ Receive(r)
       \/ HandleRequestParse(r)
       \/ HandleRequestAdmit(r)
       \/ HandleRequestCandidates(r)
       \/ HandleRequestSchedule(r)
       \/ HandleRequestPrepare(r)
       \/ HandleResponse(r)

Spec == Init /\ [][Next]_vars

\* HandleRequest executions in flight together
InitConcurrent == InitState /\ active = Requests

SpecConcurrent == InitConcurrent /\ [][Next]_vars

\* ------------------------------------------- the plugin under its callers
\* The scheduler calls Score and the Director calls PreRequest, for any
\* stream of requests and any choice of target pods.
PluginRequests ==
    { LLMRequest("x1", << "m" >>, Completions(<< "a", "a", "b", "b", "c", "c" >>)),
      LLMRequest("x1", << "m" >>, Completions(<< "a", "a", "d", "d" >>)),
      LLMRequest("x1", << "m" >>, Completions(<< "a", "a" >>)),
      LLMRequest("x1", << "m" >>, Completions(<< "a" >>)),
      LLMRequest("x1", << "m" >>, NilData),
      LLMRequest("x1", << "n" >>, Completions(<< "a", "a", "b" >>)) }

PluginScore ==
    \E request \in PluginRequests, pods \in PodListCases \ { << >> } :
       LET score == Score(hashToPods, request, pods)
       IN /\ pluginState' = Write(pluginState, request.RequestId,
                                  PrefixCachePluginType, score.state)
          /\ obs' = [req |-> "none", op |-> "score", request |-> request,
                     pods |-> pods, score |-> score]
          /\ UNCHANGED << active, pc, reqCtx, requestData, candidatePods, result,
                          ret, trace, hashToPods, podToLRU, emitted >>

PluginPreRequest ==
    \E request \in PluginRequests, targets \in TargetLists(<< P1, P2 >>) :
       LET schedulingResult == Result("primary", "primary" :> [TargetPods |-> targets])
           read == ReadPluginStateKey(pluginState, request.RequestId,
                                      PrefixCachePluginType)
           out == PreRequest(pluginState,
                             [hashToPods |-> hashToPods, podToLRU |-> podToLRU],
                             request, schedulingResult)
       IN /\ pluginState' = out.pluginState
          /\ hashToPods' = out.index.hashToPods
          /\ podToLRU' = out.index.podToLRU
          /\ obs' = [req |-> "none", op |-> "prerequest", request |-> request,
                     targets |-> targets, read |-> read, metric |-> out.metric,
                     before |-> [hashToPods |-> hashToPods, podToLRU |-> podToLRU]]
          /\ UNCHANGED << active, pc, reqCtx, requestData, candidatePods, result,
                          ret, trace, emitted >>

InitPlugin == InitState /\ active = {}

NextPlugin == PluginScore \/ PluginPreRequest

SpecPlugin == InitPlugin /\ [][NextPlugin]_vars

\* ------------------------------------------------- hashPrompt by itself
\* hashPrompt is called for two requests under one configuration
HashModels == { << >>, << "m" >>, << "n" >> }

HashPrompts == UNION { [1..n -> {"a", "b"}] : n \in 0..MaxPromptLen }

HashData ==
    { Completions(p) : p \in HashPrompts }
    \cup { ChatCompletions(<< [role |-> << "u" >>, content |-> << "a", "b" >>] >>),
           ChatCompletions(<< [role |-> << "u" >>, content |-> << "a", "a" >>] >>) }

HashRequests == { LLMRequest("x1", m, d) : m \in HashModels, d \in HashData }

InitHash ==
    /\ InitFields
    /\ active = {}
    /\ \E a \in HashRequests, b \in HashRequests,
          cacheBlockSize \in 1..MaxHashBlockSize,
          maxPrefixBlocks \in 1..MaxHashBlocks :
          obs = [req |-> "none", op |-> "input", a |-> a, b |-> b,
                 cacheBlockSize |-> cacheBlockSize,
                 maxPrefixBlocks |-> maxPrefixBlocks]

HashBoth ==
    /\ obs.op = "input"
    /\ obs' = [req |-> "none", op |-> "hash", a |-> obs.a, b |-> obs.b,
               cacheBlockSize |-> obs.cacheBlockSize,
               maxPrefixBlocks |-> obs.maxPrefixBlocks,
               ha |-> hashPrompt(obs.a, obs.cacheBlockSize, obs.maxPrefixBlocks),
               hb |-> hashPrompt(obs.b, obs.cacheBlockSize, obs.maxPrefixBlocks)]
    /\ UNCHANGED << active, pc, reqCtx, requestData, candidatePods, result, ret,
                    trace, pluginState, hashToPods, podToLRU, emitted >>

NextHash == HashBoth

SpecHash == InitHash /\ [][NextHash]_vars

\* ----------------------------------------- ExtractRequestData by itself
ExtractPrompts == { Absent, Other, Str(<< >>), Str(<< "a" >>) }

\* messages: absent, not a sequence, empty, well-formed, and sequences with
\* an element that is no object or whose role or content is missing or not
\* a string
ExtractMessages ==
    { Absent, Other, List(<< >>),
      List(<< Msg("u", << "a" >>) >>),
      List(<< Msg("s", << "b" >>), Msg("u", << "a" >>) >>),
      List(<< Other >>),
      List(<< Message(Other, Str(<< "a" >>)) >>),
      List(<< Message(Str(<< "u" >>), Other) >>),
      List(<< Message(Absent, Str(<< "a" >>)) >>),
      List(<< Msg("u", << "a" >>), Message(Str(<< "u" >>), Absent) >>) }

\* optional entries: none, all well-formed, and each one in turn wrongly
\* shaped among well-formed others
ExtractOptional ==
    { NoOptional, AllOptional }
    \cup { [AllOptional EXCEPT ![f] = Other] : f \in OptionalFields }
    \cup { [NoOptional EXCEPT !["tools"] = Str(<< "i" >>)],
           [NoOptional EXCEPT !["chat_template_kwargs"] = Str(<< "i" >>)] }

ExtractBodies ==
    { BodyWith(Str(<< "m" >>), prompt, messages, optional) :
         prompt \in ExtractPrompts, messages \in ExtractMessages,
         optional \in ExtractOptional }

InitExtract ==
    /\ InitFields
    /\ active = {}
    /\ \E body \in ExtractBodies :
          obs = [req |-> "none", op |-> "body", body |-> body]

Extract ==
    /\ obs.op = "body"
    /\ obs' = [req |-> "none", op |-> "extract", body |-> obs.body,
               out |-> ExtractRequestData(obs.body)]
    /\ UNCHANGED << active, pc, reqCtx, requestData, candidatePods, result, ret,
                    trace, pluginState, hashToPods, podToLRU, emitted >>

NextExtract == Extract

SpecExtract == InitExtract /\ [][NextExtract]_vars

\* --------------------------------- Score of a plugin built from a config
\* every config New accepts: sizes and capacity negative, zero and positive
ConfigCases ==
    [HashBlockSize : (0 - 1)..MaxHashBlockSize,
     MaxPrefixBlocksToMatch : (0 - 1)..MaxHashBlocks,
     LRUCapacityPerServer : (0 - 1)..LRUCapacity]

InitConfig ==
    /\ InitFields
    /\ active = {}
    /\ \E config \in ConfigCases, request \in HashRequests :
          obs = [req |-> "none", op |-> "config", config |-> config,
                 request |-> request, pods |-> << P1, P2 >>]

\* New(config) and the first Score of the plugin it returns
NewAndScore ==
    /\ obs.op = "config"
    /\ LET plugin == NewPlugin(obs.config)
           fault == hashPromptFault(obs.request, plugin.config.HashBlockSize,
                                    plugin.config.MaxPrefixBlocksToMatch)
           score == ScoreConfigured(plugin.config, EmptyIndex.hashToPods,
                                    obs.request, obs.pods)
       IN /\ obs' = [req |-> "none", op |-> "newscore", config |-> obs.config,
                     request |-> obs.request, pods |-> obs.pods,
                     plugin |-> plugin, fault |-> fault,
                     scores |-> IF fault = "none" THEN score.scores ELSE << >>]
          /\ pluginState' = IF fault = "none"
                            THEN Write(pluginState, obs.request.RequestId,
                                       PrefixCachePluginType, score.state)
                            ELSE pluginState
    /\ UNCHANGED << active, pc, reqCtx, requestData, candidatePods, result, ret,
                    trace, hashToPods, podToLRU, emitted >>

NextConfig == NewAndScore

SpecConfig == InitConfig /\ [][NextConfig]_vars

\* --------------------------------------------------------------- claims
Invoked(r, what) == what \in Range(trace[r])

IdOf(r) == reqCtx[r].SchedulingRequest.RequestId

\* C1: right after the prefix plugin's PreRequest has returned for a request,
\* the state store holds no entry for that request's id, whether the read
\* found the ScoringState or failed.
C1_StoreCleanup ==
    (obs.op = "prepare" /\ obs.run) => IdOf(obs.req) \notin DOMAIN pluginState

\* both cases have happened: one request's PreRequest found its state, the
\* other's read failed, and the store holds neither id
C1_Witness ==
    /\ obs.op = "prepare" /\ obs.run /\ obs.read.err
    /\ IdOf(obs.req) \notin DOMAIN pluginState
    /\ \E r \in Requests \ {obs.req} :
          /\ Invoked(r, PrefixCachePluginType)
          /\ emitted[r] # << >>
          /\ IdOf(r) \notin DOMAIN pluginState

\* C2: a request whose Score wrote a ScoringState has, when HandleRequest
\* returns, either had its PreRequest run or had the entry removed.
C2_NoStrandedState ==
    \A r \in Requests :
       (pc[r] = "done" /\ Invoked(r, "Score"))
          => (Invoked(r, PrefixCachePluginType) \/ IdOf(r) \notin DOMAIN pluginState)

\* the greatest k such that server is in Get(hashes[i]) for every i <= k
LongestPrefix(hashToPodsMap, hashes, server) ==
    CHOOSE k \in 0..Len(hashes) :
       /\ \A i \in 1..k : server \in Get(hashToPodsMap, hashes[i])
       /\ (k < Len(hashes) => server \notin Get(hashToPodsMap, hashes[k + 1]))

\* C3: the map matchLongestPrefix returns credits every replica with exactly
\* its longest run of matched hashes from block 0.
C3_LongestPrefixExact ==
    obs.op = "score" =>
       \A server \in Servers :
          Lookup(obs.score.state.PrefixCacheServers, server)
             = LongestPrefix(hashToPods, obs.score.state.PrefixHashes, server)

HashesOf(server) == { h \in DOMAIN hashToPods : server \in hashToPods[h] }

ConfiguredCapacity ==
    IF Config.LRUCapacityPerServer > 0 THEN Config.LRUCapacityPerServer
    ELSE DefaultLRUCapacityPerServer

\* C4: every replica is in the replica set of at most capacity hashes.
C4_BoundedIndexer ==
    \A server \in Servers : Cardinality(HashesOf(server)) <= ConfiguredCapacity

\* a chain longer than the capacity was added and its server is at capacity
C4_Witness ==
    /\ obs.op = "prerequest" /\ ~obs.read.err
    /\ Len(obs.read.state.PrefixHashes) > ConfiguredCapacity
    /\ Cardinality(HashesOf(obs.targets[1].name)) = ConfiguredCapacity

ShedErr ==
    Err("InferencePoolResourceExhausted", "system saturated, sheddable request dropped")

\* the priority the claim gives an objective: 0 when there is no objective
\* or its priority is unset
ResolvedPriority(objective) ==
    IF objective.t = "set" THEN objective.priority ELSE 0

\* C5: a request is shed exactly when its resolved priority is negative and
\* the detector reports saturation at admission; for a priority >= 0 the
\* detector is not consulted; a shed request reaches neither the scheduler
\* nor a PreRequest plugin.
C5_AdmissionControl ==
    /\ obs.op = "admit" =>
          /\ (ret[obs.req] = Return(obs.req, ShedErr) /\ pc[obs.req] = "done")
                <=> (ResolvedPriority(obs.objective) < 0 /\ obs.isSaturated)
          /\ ret[obs.req] # Return(obs.req, ShedErr) => pc[obs.req] = "candidates"
          /\ Invoked(obs.req, "IsSaturated") <=> ResolvedPriority(obs.objective) < 0
    /\ \A r \in Requests :
          ret[r].err = ShedErr =>
             /\ pc[r] = "done"
             /\ ~Invoked(r, "PodList") /\ ~Invoked(r, "Schedule")
             /\ ~Invoked(r, "Score") /\ ~Invoked(r, PrefixCachePluginType)

\* a sheddable request met a saturated system and was dropped
C5_Witness ==
    /\ obs.op = "admit" /\ obs.objective = Objective("set", -1) /\ obs.isSaturated
    /\ ret[obs.req] = Return(obs.req, ShedErr)
    /\ pc[obs.req] = "done"

\* C6: whenever HandleRequest has returned, it returned the request context
\* it was given.
C6_ContextReturned ==
    \A r \in Requests : pc[r] = "done" => ret[r].ctx = r

\* HandleRequest returned the context together with the PoolGet error
C6_Witness ==
    \E r \in Requests :
       pc[r] = "done" /\ ret[r].ctx = r /\ ret[r].err.Code = "PoolGet"

\* the place of a collaborator in the fixed stage order
Rank(what) ==
    CASE what = "ExtractRequestData" -> 1
      [] what = "ObjectiveGet" -> 2
      [] what = "IsSaturated" -> 3
      [] what = "PodList" -> 4
      [] what = "Schedule" -> 5
      [] what = "Score" -> 6
      [] what = "PoolGet" -> 7
      [] what = PrefixCachePluginType -> 8
      [] what = OtherPreRequestType -> 9
      [] what = postResponsePlugins[1] -> 10
      [] OTHER -> 11

NoneAfter(r, rank) == \A i \in 1..Len(trace[r]) : Rank(trace[r][i]) <= rank

\* C7: the collaborators of a request are invoked in the order extract,
\* admit, candidates and Schedule (with Score), prepareRequest (PreRequest);
\* a PreRequest is preceded by a Schedule that succeeded; once a stage has
\* failed no collaborator of a later stage is invoked.
C7_StageOrder ==
    \A r \in Requests :
       /\ \A i, j \in 1..Len(trace[r]) : i < j => Rank(trace[r][i]) < Rank(trace[r][j])
       /\ Invoked(r, PrefixCachePluginType) =>
             /\ Invoked(r, "Schedule") /\ Invoked(r, "PoolGet")
             /\ Invoked(r, "ObjectiveGet") /\ Invoked(r, "ExtractRequestData")
             /\ ret[r] = Return(r, NoErr)
       /\ Invoked(r, "Schedule") => Invoked(r, "ObjectiveGet")
       /\ Invoked(r, "ObjectiveGet") => Invoked(r, "ExtractRequestData")
       /\ ret[r].err.Msg = "model not found in request body" => trace[r] = << >>
       /\ ret[r].err.Msg = "failed to extract request data" => NoneAfter(r, 1)
       /\ ret[r].err = ShedErr => NoneAfter(r, 3)
       /\ ret[r].err.Code = "ServiceUnavailable" => NoneAfter(r, 4)
       /\ ret[r].err.Msg = "failed to find target pod" => NoneAfter(r, 6)
       /\ ret[r].err.Code \in {"Internal", "PoolGet"} => NoneAfter(r, 7)
       /\ ret[r].err.Msg = "targetPorts should have length 1" => NoneAfter(r, 7)

\* a request went through every stage, each collaborator once and in order
C7_Witness ==
    \E r \in Requests :
       /\ pc[r] = "done" /\ ret[r] = Return(r, NoErr)
       /\ trace[r] = << "ExtractRequestData", "ObjectiveGet", "IsSaturated",
                        "PodList", "Schedule", "Score", "PoolGet",
                        PrefixCachePluginType, OtherPreRequestType >>

\* C8: a request whose body model is absent, not a string or the empty
\* string is answered BadRequest("model not found in request body") and no
\* later step runs for it.
C8_ModelRequired ==
    \A r \in Requests :
       (pc[r] \notin {"idle", "parse"} /\ reqCtx[r].IncomingModelName = << >>)
          => /\ pc[r] = "done"
             /\ ret[r] = Return(r, Err("BadRequest", "model not found in request body"))
             /\ trace[r] = << >>

\* the address part of an endpoint: what comes before its first ':'
IsAddressOf(address, endpoint) ==
    \E k \in 0..Len(endpoint) :
       /\ address = SubSeq(endpoint, 1, k)
       /\ \A i \in 1..k : endpoint[i] # ":"
       /\ (k < Len(endpoint) => endpoint[k + 1] = ":")

HasSubsetList(metadata) == metadata.ns = "object" /\ metadata.key = "list"

Listed(metadata, pod) ==
    \E i \in 1..Len(metadata.list) : IsAddressOf(pod.address, metadata.list[i].v)

\* the candidate list of the contract
ExpectedCandidates(metadata, podList) ==
    IF ~HasSubsetList(metadata) THEN podList
    ELSE SelectSeq(podList, LAMBDA pod : Listed(metadata, pod))

\* C9: when the candidate list is empty (empty subset list, no pod matching
\* the subset, or no pods) HandleRequest returns ServiceUnavailable, no
\* ScoringState is written and no PreRequest plugin runs.
C9_EmptyCandidates ==
    /\ (obs.op = "candidates" /\ ~obs.panic
        /\ ExpectedCandidates(reqCtx[obs.req].Metadata, obs.podList) = << >>)
          => /\ pc[obs.req] = "done"
             /\ ret[obs.req] = Return(obs.req, Err("ServiceUnavailable",
                    "failed to find candidate pods for serving the request"))
    /\ \A r \in Requests :
          ret[r].err.Code = "ServiceUnavailable" =>
             /\ pc[r] = "done"
             /\ ~Invoked(r, "Schedule") /\ ~Invoked(r, "Score")
             /\ ~Invoked(r, PrefixCachePluginType)
             /\ pluginState = << >>

\* the subset list is present and empty while the datastore has pods
C9_Witness ==
    /\ obs.op = "candidates" /\ obs.podList # << >>
    /\ HasSubsetList(reqCtx[obs.req].Metadata)
    /\ reqCtx[obs.req].Metadata.list = << >>
    /\ ret[obs.req].err.Code = "ServiceUnavailable"

\* C10: without a subset list the candidates are all pods of the datastore;
\* with a non-empty list they are exactly the pods whose address is the
\* part before the first ':' of a listed endpoint, in datastore order.
C10_CandidateSelection ==
    (obs.op = "candidates" /\ ~obs.panic
     /\ (HasSubsetList(reqCtx[obs.req].Metadata) => reqCtx[obs.req].Metadata.list # << >>))
       => obs.pods = ExpectedCandidates(reqCtx[obs.req].Metadata, obs.podList)

\* a non-empty subset list kept one pod of the datastore and dropped another
C10_Witness ==
    /\ obs.op = "candidates" /\ ~obs.panic
    /\ reqCtx[obs.req].Metadata.list # << >>
    /\ obs.pods # << >> /\ Len(obs.pods) < Len(obs.podList)
    /\ candidatePods[obs.req] = obs.pods

\* "address:port" for each pod in order, separated by commas
RECURSIVE EndpointList(_, _)
EndpointList(pods, port) ==
    IF Len(pods) = 0 THEN << >>
    ELSE LET n == Len(pods)
             last == pods[n].address \o << ":", port >>
         IN IF n = 1 THEN last
            ELSE EndpointList(SubSeq(pods, 1, n - 1), port) \o << "," >> \o last

\* prepareRequest got as far as reading the pool's target ports
ReadTargetPorts == obs.result.t = "result"
                   /\ DOMAIN obs.result.ProfileResults # {}
                   /\ ~obs.pool.err

\* C11: when the pool does not have exactly one target port, prepareRequest
\* returns BadRequest("targetPorts should have length 1"), leaves the target
\* pod and the target endpoint of the request context unset and runs no
\* PreRequest plugin; otherwise the target pod is the first target pod of the
\* primary profile, the target endpoint is the comma-join, in order, of one
\* "address:port" per target pod, and the PreRequest plugins have run only
\* with both set.
C11_PrepareRequest ==
    /\ (obs.op = "prepare" /\ ReadTargetPorts) =>
          LET r == obs.req
              res == obs.result
          IN IF Len(obs.pool.TargetPorts) # 1
             THEN /\ ret[r] = Return(r, Err("BadRequest",
                                  "targetPorts should have length 1"))
                  /\ reqCtx[r].TargetPod = NoPod
                  /\ reqCtx[r].TargetEndpoint = << >>
                  /\ ~Invoked(r, PrefixCachePluginType)
             ELSE ~obs.panic =>
                  LET pods == res.ProfileResults[res.PrimaryProfileName].TargetPods
                  IN /\ reqCtx[r].TargetPod = pods[1]
                     /\ reqCtx[r].TargetEndpoint
                           = EndpointList(pods, obs.pool.TargetPorts[1])
                     /\ Invoked(r, PrefixCachePluginType)
                     /\ ret[r] = Return(r, NoErr)
    /\ \A r \in Requests :
          Invoked(r, PrefixCachePluginType) =>
             /\ reqCtx[r].TargetPod # NoPod
             /\ reqCtx[r].TargetEndpoint # << >>

\* two target pods and one target port: the endpoint lists both, first the
\* pod that became the target
C11_Witness ==
    /\ obs.op = "prepare" /\ obs.run
    /\ reqCtx[obs.req].TargetPod = P2
    /\ reqCtx[obs.req].TargetEndpoint = << "2", ":", "8", ",", "1", ":", "8" >>
    /\ Invoked(obs.req, PrefixCachePluginType)

\* C12: Score returns one score per candidate pod, each in [0,1]: the pod's
\* entry of PrefixCacheServers divided by the number of prefix hashes when
\* there are hashes and 0 when there are none; a candidate without an entry
\* scores 0, and no entry exceeds the number of prefix hashes.
C12_ScoreRange ==
    obs.op = "score" =>
       LET servers == obs.score.state.PrefixCacheServers
           total == Len(obs.score.state.PrefixHashes)
       IN /\ Len(obs.score.scores) = Len(obs.pods)
          /\ \A i \in 1..Len(obs.pods) :
                LET sc == obs.score.scores[i]
                    name == obs.pods[i].name
                IN /\ sc[2] > 0 /\ 0 <= sc[1] /\ sc[1] <= sc[2]
                   /\ total > 0 => (sc[2] = total /\ sc[1] = Lookup(servers, name))
                   /\ total = 0 => sc[1] = 0
                   /\ name \notin DOMAIN servers => sc[1] = 0
          /\ \A server \in DOMAIN servers :
                servers[server] >= 0 /\ servers[server] <= total

\* of two candidates one holds part of the prompt's prefix and scores between
\* 0 and 1, the other holds nothing and scores 0
C12_Witness ==
    /\ obs.op = "score" /\ Len(obs.pods) = 2
    /\ obs.pods[2].name \notin DOMAIN obs.score.state.PrefixCacheServers
    /\ obs.score.scores[2][1] = 0
    /\ obs.score.scores[1][1] > 0
    /\ obs.score.scores[1][1] < obs.score.scores[1][2]

\* the block hashes Score computes for a request
PrefixHashesOf(request) ==
    hashPrompt(request, Config.HashBlockSize, Config.MaxPrefixBlocksToMatch)

\* the index holds the hashes of one chain, all for one server, and no more
OnlyChain(index, hashes, server) ==
    /\ Range(index.podToLRU[server]) = Range(hashes)
    /\ \A s \in Servers \ {server} : index.podToLRU[s] = << >>
    /\ DOMAIN index.hashToPods = Range(hashes)
    /\ \A h \in Range(hashes) : index.hashToPods[h] = {server}

\* the number of leading positions at which two chains agree
CommonPrefix(ha, hb) ==
    CHOOSE k \in 0..Len(ha) :
       /\ k <= Len(hb)
       /\ \A i \in 1..k : ha[i] = hb[i]
       /\ (k < Len(ha) /\ k < Len(hb)) => ha[k + 1] # hb[k + 1]

\* the requests A of the claim: between 1 and capacity block hashes
Dispatched ==
    { a \in PluginRequests :
         Len(PrefixHashesOf(a)) >= 1 /\ Len(PrefixHashesOf(a)) <= ConfiguredCapacity }

\* C13: from an empty indexer, once a request A with 1..capacity block hashes
\* has been scored and dispatched to pod P, the index holds A's chain for P;
\* a later request B of the same model whose hashes agree with A's on
\* exactly the first k gets PrefixCacheServers[P] = k and the score
\* k / len(B) for P (1 when B is A, 0 when nothing was dispatched yet), and
\* B's PreRequest with target P records PrefixCacheMatch(k * block size,
\* len(B) * block size).
C13_WarmCache ==
    /\ obs.op = "score" =>
          /\ hashToPods = << >> => \A i \in 1..Len(obs.pods) : obs.score.scores[i][1] = 0
          /\ \A a \in Dispatched, P \in Servers :
                (/\ OnlyChain([hashToPods |-> hashToPods, podToLRU |-> podToLRU],
                              PrefixHashesOf(a), P)
                 /\ obs.request.TargetModel = a.TargetModel)
                   => LET hb == obs.score.state.PrefixHashes
                          k == CommonPrefix(PrefixHashesOf(a), hb)
                      IN /\ Lookup(obs.score.state.PrefixCacheServers, P) = k
                         /\ \A i \in 1..Len(obs.pods) :
                               obs.pods[i].name = P =>
                                  obs.score.scores[i]
                                     = IF Len(hb) = 0 THEN << 0, 1 >> ELSE << k, Len(hb) >>
    /\ (obs.op = "prerequest" /\ ~obs.read.err) =>
          LET hb == obs.read.state.PrefixHashes
              P == obs.targets[1].name
          IN /\ (obs.before = EmptyIndex /\ Len(hb) >= 1 /\ Len(hb) <= ConfiguredCapacity)
                   => OnlyChain([hashToPods |-> hashToPods, podToLRU |-> podToLRU],
                                hb, P)
             /\ \A a \in Dispatched :
                   (/\ OnlyChain(obs.before, PrefixHashesOf(a), P)
                    /\ PrefixHashesOf(obs.request) = hb
                    /\ obs.request.TargetModel = a.TargetModel)
                      => obs.metric
                           = << [matched |-> CommonPrefix(PrefixHashesOf(a), hb)
                                               * Config.HashBlockSize,
                                 total |-> Len(hb) * Config.HashBlockSize] >>

\* the index held only a two-block chain for p1 when a request sharing its
\* first block and going on differently was dispatched to p1
C13_Witness ==
    /\ obs.op = "prerequest" /\ ~obs.read.err
    /\ obs.targets[1].name = "p1"
    /\ \E a \in Dispatched :
          /\ Len(PrefixHashesOf(a)) = 2
          /\ OnlyChain(obs.before, PrefixHashesOf(a), "p1")
          /\ PrefixHashesOf(obs.request) = obs.read.state.PrefixHashes
          /\ obs.request.TargetModel = a.TargetModel
          /\ CommonPrefix(PrefixHashesOf(a), obs.read.state.PrefixHashes) = 1
          /\ Len(obs.read.state.PrefixHashes) = 3
    /\ obs.metric = << [matched |-> Config.HashBlockSize,
                        total |-> 3 * Config.HashBlockSize] >>

MinOf(x, y) == IF x <= y THEN x ELSE y

\* the two inputs have at least n bytes and agree on the first n
AgreeOn(ua, ub, n) ==
    /\ n <= Len(ua) /\ n <= Len(ub)
    /\ \A p \in 1..n : ua[p] = ub[p]

\* C14: for two requests of the same target model whose user-input bytes
\* agree on the first k blocks, the hashes at positions 0..k-1 (as far as the
\* block limit lets them exist) are identical; if the bytes first differ
\* inside block j, the hashes at every position >= j differ; two requests of
\* different target models have no hash in common at any positions.
C14_ChainedHash ==
    obs.op = "hash" =>
       LET ua == getUserInputBytes(obs.a)
           ub == getUserInputBytes(obs.b)
           size == obs.cacheBlockSize
       IN IF obs.a.TargetModel = obs.b.TargetModel
          THEN /\ \A k \in 0..Len(ua) :
                     AgreeOn(ua, ub, k * size) =>
                        \A i \in 1..MinOf(k, obs.maxPrefixBlocks) :
                           /\ i <= Len(obs.ha) /\ i <= Len(obs.hb)
                           /\ obs.ha[i] = obs.hb[i]
               /\ \A p \in 1..MinOf(Len(ua), Len(ub)) :
                     (AgreeOn(ua, ub, p - 1) /\ ua[p] # ub[p]) =>
                        \A i \in 1..MinOf(Len(obs.ha), Len(obs.hb)) :
                           i - 1 >= (p - 1) \div size => obs.ha[i] # obs.hb[i]
          ELSE \A i \in 1..Len(obs.ha), j \in 1..Len(obs.hb) : obs.ha[i] # obs.hb[j]

\* two prompts of one model that share their first block and differ in the
\* second, where the third blocks are equal bytes again
C14_Witness ==
    /\ obs.op = "hash" /\ obs.cacheBlockSize = 1
    /\ obs.a.TargetModel = obs.b.TargetModel
    /\ obs.a.Data.prompt = << "a", "a", "b" >>
    /\ obs.b.Data.prompt = << "a", "b", "b" >>
    /\ Len(obs.ha) = 2 /\ Len(obs.hb) = 2
    /\ obs.ha[1] = obs.hb[1]
    /\ obs.ha[2] # obs.hb[2]

\* the number of hashes the contract gives an input of L bytes
BlockCount(L, size, limit) == MinOf(L, size * limit) \div size

\* C15: for a positive block size and block limit, hashPrompt returns
\* min(L, block size * limit) / block size hashes for an input of L bytes:
\* none when L < block size, one when L = block size, limit many when
\* L = block size * limit + 1; bytes short of a full block produce no hash.
C15_BlockCount ==
    obs.op = "hash" =>
       \A x \in { << obs.a, obs.ha >>, << obs.b, obs.hb >> } :
          LET L == Len(getUserInputBytes(x[1]))
              size == obs.cacheBlockSize
              limit == obs.maxPrefixBlocks
              n == Len(x[2])
          IN /\ n = BlockCount(L, size, limit)
             /\ L < size => n = 0
             /\ L = size => n = 1
             /\ L = size * limit + 1 => n = limit
             /\ n * size <= L

\* an input one byte longer than two blocks of the limit gives two hashes
C15_Witness ==
    /\ obs.op = "hash" /\ obs.maxPrefixBlocks = 2
    /\ Len(getUserInputBytes(obs.a)) = obs.cacheBlockSize * obs.maxPrefixBlocks + 1
    /\ Len(obs.ha) = 2

\* the body has a prompt that is a non-empty string
HasPrompt(body) == body.prompt.t = "str" /\ body.prompt.v # << >>

\* messages is a non-empty sequence of objects that each have a string role
\* and a string content
WellFormedMessages(body) ==
    /\ body.messages.t = "list"
    /\ Len(body.messages.v) > 0
    /\ \A i \in 1..Len(body.messages.v) :
          /\ body.messages.v[i].t = "object"
          /\ body.messages.v[i].role.t = "str"
          /\ body.messages.v[i].content.t = "str"

\* every optional entry that is present has its declared shape
WellShapedOptional(body) ==
    \A f \in OptionalFields :
       body.optional[f].t # "absent" =>
          CASE f \in {"tools", "documents"} -> body.optional[f].t = "list"
            [] f = "chat_template" -> body.optional[f].t = "str"
            [] f = "chat_template_kwargs" -> body.optional[f].t = "object"
            [] OTHER -> body.optional[f].t = "bool"

\* C16: ExtractRequestData returns either a BadRequest error and no data or
\* data of exactly one variant: Completions exactly when the prompt is a
\* non-empty string, otherwise ChatCompletions only if messages is a
\* non-empty sequence of objects with string role and string content and
\* every optional entry present has its declared shape; every other body
\* yields BadRequest.
C16_ExtractOutcome ==
    obs.op = "extract" =>
       LET body == obs.body
           out == obs.out
       IN /\ \/ out.err.Code = "BadRequest" /\ out.data = NilData
             \/ out.err = NoErr /\ out.data.kind \in {"completions", "chat"}
          /\ out.data.kind = "completions" <=> HasPrompt(body)
          /\ out.data.kind = "completions" =>
                out.data = Completions(body.prompt.v)
          /\ out.data.kind = "chat" =>
                /\ out.data.prompt = << >>
                /\ WellFormedMessages(body) /\ WellShapedOptional(body)
          /\ (~HasPrompt(body)
              /\ ~(WellFormedMessages(body) /\ WellShapedOptional(body)))
                => out.err.Code = "BadRequest"

\* the model name a block hash was seeded with: what follows its last
\* separator
SeedOf(h) ==
    LET k == CHOOSE i \in 1..Len(h) :
                h[i] = "|" /\ \A j \in (i + 1)..Len(h) : h[j] # "|"
    IN SubSeq(h, k + 1, Len(h))

\* C17: once HandleRequest has passed the model check, the target model is
\* the preset target model if there is one and the incoming body model
\* otherwise, the body's model entry is the target model, and the LLMRequest
\* handed to the scheduler and to PreRequest carries it, so that the prefix
\* hashes are seeded with the target model.
C17_TargetModelRewrite ==
    /\ (obs.op = "parse" /\ obs.model.t = "str") =>
          /\ reqCtx[obs.req].TargetModelName
                = IF obs.preset # << >> THEN obs.preset ELSE obs.model.v
          /\ reqCtx[obs.req].Body.model = Str(reqCtx[obs.req].TargetModelName)
    /\ \A r \in Requests :
          reqCtx[r].SchedulingRequest.set =>
             /\ reqCtx[r].SchedulingRequest.TargetModel = reqCtx[r].TargetModelName
             /\ reqCtx[r].Body.model = Str(reqCtx[r].TargetModelName)
    /\ (obs.op = "schedule" /\ obs.scored) =>
          \A i \in 1..Len(obs.score.state.PrefixHashes) :
             SeedOf(obs.score.state.PrefixHashes[i]) = reqCtx[obs.req].TargetModelName

\* a request for model m with the preset target model n was scored: its
\* hashes are seeded with n
C17_Witness ==
    /\ obs.op = "schedule" /\ obs.scored
    /\ reqCtx[obs.req].IncomingModelName = << "m" >>
    /\ reqCtx[obs.req].TargetModelName = << "n" >>
    /\ reqCtx[obs.req].Body.model = Str(<< "n" >>)
    /\ obs.score.state.PrefixHashes # << >>
    /\ SeedOf(obs.score.state.PrefixHashes[1]) = << "n" >>

\* the touches of a server in order: its hashes from the least recently
\* touched on, those of the added chain taken out, and then the chain
TouchOrder(old, hashes) ==
    SelectSeq(old, LAMBDA h : h \notin Range(hashes)) \o hashes

\* the last n elements of s
LastN(s, n) == IF Len(s) <= n THEN s ELSE SubSeq(s, Len(s) - n + 1, Len(s))

\* C18: when an Add makes a replica exceed its capacity, the hashes that
\* lose the replica are its least recently touched ones, a pair that was
\* already present counting as touched by the Add and staying a member;
\* Get of an evicted hash no longer contains the replica, and a hash whose
\* replica set became empty is no longer in the index.
C18_EvictionOrder ==
    (obs.op = "prerequest" /\ ~obs.read.err) =>
       LET hashes == obs.read.state.PrefixHashes
           r == obs.targets[1].name
           old == obs.before.podToLRU[r]
           order == TouchOrder(old, hashes)
           kept == LastN(order, ConfiguredCapacity)
           evicted == Range(order) \ Range(kept)
       IN /\ podToLRU[r] = kept
          /\ HashesOf(r) = Range(kept)
          /\ \A h \in evicted : r \notin Get(hashToPods, h)
          /\ \A h \in evicted :
                Get(obs.before.hashToPods, h) \ {r} = {} => h \notin DOMAIN hashToPods
          /\ \A h \in DOMAIN hashToPods : hashToPods[h] # {}
          /\ Len(order) <= ConfiguredCapacity => evicted = {}
          /\ Range(hashes) \subseteq Range(old) => HashesOf(r) = Range(old)

\* a replica at capacity, its older hash held by no other replica, gets a
\* chain of its newer hash and one new hash: the newer hash is touched and
\* stays, the older one is evicted and leaves the index
C18_Witness ==
    /\ obs.op = "prerequest" /\ ~obs.read.err
    /\ Len(obs.read.state.PrefixHashes) = 2
    /\ LET hashes == obs.read.state.PrefixHashes
           old == obs.before.podToLRU[obs.targets[1].name]
       IN /\ Len(old) = 2
          /\ old[2] = hashes[1]
          /\ old[1] \notin Range(hashes)
          /\ obs.before.hashToPods[old[1]] = {obs.targets[1].name}
          /\ podToLRU[obs.targets[1].name] = hashes
          /\ old[1] \notin DOMAIN hashToPods

\* the replica's most recent touches are those of an Add of the chain
JustAdded(lru, hashes) ==
    LET tail == LastN(hashes, ConfiguredCapacity)
    IN /\ Len(lru) >= Len(tail)
       /\ SubSeq(lru, Len(lru) - Len(tail) + 1, Len(lru)) = tail

\* C19: Indexer.Add(hashes, r) performed twice in succession leaves every
\* hash with the same replica set as performing it once.
C19_AddIdempotent ==
    /\ (obs.op = "prerequest" /\ ~obs.read.err
        /\ JustAdded(obs.before.podToLRU[obs.targets[1].name],
                     obs.read.state.PrefixHashes))
          => hashToPods = obs.before.hashToPods
    /\ \A request \in PluginRequests, r \in Servers :
          LET once == Add([hashToPods |-> hashToPods, podToLRU |-> podToLRU],
                          PrefixHashesOf(request), r, capacity)
              twice == Add(once, PrefixHashesOf(request), r, capacity)
          IN twice.hashToPods = once.hashToPods

\* a chain longer than the capacity is added to the replica that was given
\* that chain last: hashes are evicted on the way and the membership ends
\* as it was
C19_Witness ==
    /\ obs.op = "prerequest" /\ ~obs.read.err
    /\ Len(obs.read.state.PrefixHashes) > ConfiguredCapacity
    /\ obs.before.podToLRU[obs.targets[1].name]
          = LastN(obs.read.state.PrefixHashes, ConfiguredCapacity)
    /\ hashToPods = obs.before.hashToPods

\* the request has an empty subset-filter list and HandleRequest has
\* returned after selecting its candidates
EmptySubsetDone(r) ==
    /\ pc[r] = "done"
    /\ HasSubsetList(reqCtx[r].Metadata) /\ reqCtx[r].Metadata.list = << >>
    /\ Invoked(r, "ObjectiveGet") /\ ret[r].err # ShedErr

\* C20 as stated: with the subset-filter list present and empty,
\* Scheduler.Schedule is invoked with the empty candidate list and what
\* HandleRequest reports is the scheduler's failure.
C20_SchedulerFailsRequest ==
    \A r \in Requests :
       EmptySubsetDone(r) =>
          /\ Invoked(r, "Schedule")
          /\ ret[r] = Return(r, Err("InferencePoolResourceExhausted",
                                    "failed to find target pod"))

\* C20 as amended: with the subset-filter list present and empty, the
\* candidate list is empty and HandleRequest itself fails the request with
\* ServiceUnavailable; Scheduler.Schedule is not invoked.
C20_DirectorFailsRequest ==
    /\ (obs.op = "candidates" /\ HasSubsetList(reqCtx[obs.req].Metadata)
        /\ reqCtx[obs.req].Metadata.list = << >>)
          => obs.pods = << >> /\ pc[obs.req] = "done"
    /\ \A r \in Requests :
          EmptySubsetDone(r) =>
             /\ ~Invoked(r, "Schedule")
             /\ ret[r] = Return(r, Err("ServiceUnavailable",
                        "failed to find candidate pods for serving the request"))

\* a sheddable request with an empty subset list was admitted and then
\* failed without the scheduler
C20_Witness ==
    \E r \in Requests :
       /\ EmptySubsetDone(r)
       /\ trace[r] = << "ExtractRequestData", "ObjectiveGet", "IsSaturated" >>
       /\ ret[r].err.Code = "ServiceUnavailable"
       /\ obs.op = "candidates" /\ obs.req = r /\ obs.pods = << >>

\* C21: when a request yields no block hash, Score returns 0 for every
\* candidate and still records a ScoringState; the PreRequest that follows
\* leaves the indexer as it was, records PrefixCacheMatch(0, 0) and deletes
\* the state entry.
C21_EmptyHashes ==
    /\ (obs.op = "score" /\ obs.score.state.PrefixHashes = << >>) =>
          /\ \A i \in 1..Len(obs.pods) : obs.score.scores[i][1] = 0
          /\ Len(obs.score.scores) = Len(obs.pods)
          /\ ReadPluginStateKey(pluginState, obs.request.RequestId,
                                PrefixCachePluginType)
                = [err |-> FALSE, state |-> obs.score.state]
    /\ (obs.op = "prerequest" /\ ~obs.read.err
        /\ obs.read.state.PrefixHashes = << >>) =>
          /\ hashToPods = obs.before.hashToPods
          /\ podToLRU = obs.before.podToLRU
          /\ obs.metric = << [matched |-> 0, total |-> 0] >>
          /\ obs.request.RequestId \notin DOMAIN pluginState

\* a request without request data was scored while the index held hashes,
\* and its PreRequest ran
C21_Witness ==
    /\ obs.op = "prerequest" /\ ~obs.read.err
    /\ obs.read.state.PrefixHashes = << >>
    /\ obs.request.Data = NilData
    /\ hashToPods # << >>
    /\ obs.metric = << [matched |-> 0, total |-> 0] >>

\* C22: when the state store has no ScoringState for the request id,
\* PreRequest adds nothing to the indexer and records no PrefixCacheMatch,
\* and HandleRequest still returns success with the target pod and the
\* target endpoint set.
C22_PreRequestWithoutState ==
    (obs.op = "prepare" /\ obs.run /\ obs.read.err) =>
       LET r == obs.req
       IN /\ Invoked(r, PrefixCachePluginType)
          /\ hashToPods = EmptyIndex.hashToPods
          /\ podToLRU = EmptyIndex.podToLRU
          /\ emitted[r] = << >>
          /\ pc[r] = "done"
          /\ ret[r] = Return(r, NoErr)
          /\ reqCtx[r].TargetPod # NoPod
          /\ reqCtx[r].TargetEndpoint # << >>

\* the scheduler did not run the scorer for a request with two block hashes,
\* and the request was dispatched
C22_Witness ==
    /\ obs.op = "prepare" /\ obs.run /\ obs.read.err
    /\ ~Invoked(obs.req, "Score")
    /\ Len(PrefixHashesOf(reqCtx[obs.req].SchedulingRequest)) = 2
    /\ ret[obs.req] = Return(obs.req, NoErr)
    /\ hashToPods = << >>

\* the hashes whose replica set contains the server, in a given index
MembershipOf(index, server) ==
    { h \in DOMAIN index.hashToPods : server \in index.hashToPods[h] }

\* C23: an Add for replica r neither removes another replica from the set
\* of any hash nor adds it to one, whatever it evicts for r; PreRequest
\* changes the membership of the first target pod of the primary profile
\* only, not of the other target pods.
C23_ReplicaIsolation ==
    obs.op = "prerequest" =>
       \A s \in Servers \ { obs.targets[1].name } :
          /\ HashesOf(s) = MembershipOf(obs.before, s)
          /\ podToLRU[s] = obs.before.podToLRU[s]

\* two target pods: the first gets a chain and loses a hash that the second
\* holds too; the second keeps it
C23_Witness ==
    /\ obs.op = "prerequest" /\ ~obs.read.err
    /\ Len(obs.targets) = 2 /\ obs.targets[1] # obs.targets[2]
    /\ \E h \in DOMAIN obs.before.hashToPods :
          /\ obs.before.hashToPods[h] = { obs.targets[1].name, obs.targets[2].name }
          /\ Get(hashToPods, h) = { obs.targets[2].name }
    /\ HashesOf(obs.targets[2].name) = MembershipOf(obs.before, obs.targets[2].name)

\* the calls a request made to registered PreRequest and PostResponse
\* plugins, in the order they were made
PreRequestCalls(r) ==
    SelectSeq(trace[r], LAMBDA what : what \in Range(preRequestPlugins))

PostResponseCalls(r) ==
    SelectSeq(trace[r], LAMBDA what : what \in Range(postResponsePlugins))

ValidPool(pool) == ~pool.err /\ Len(pool.TargetPorts) = 1

\* a scheduling result whose primary profile result exists and names a pod
HasTargetPod(res) ==
    /\ res.t # "nil"
    /\ res.PrimaryProfileName \in DOMAIN res.ProfileResults
    /\ res.ProfileResults[res.PrimaryProfileName].TargetPods # << >>

\* every HandleResponse calls each registered PostResponse plugin once, in
\* registration order, with the request's x-request-id header as request id
PostResponseInOrder ==
    /\ \A r \in Requests : PostResponseCalls(r) \in { << >>, postResponsePlugins }
    /\ obs.op = "response" =>
          /\ PostResponseCalls(obs.req) = postResponsePlugins
          /\ [i \in 1..Len(obs.calls) |-> obs.calls[i].plugin] = postResponsePlugins
          /\ \A i \in 1..Len(obs.calls) :
                /\ obs.calls[i].response.RequestId = reqCtx[obs.req].RequestIdHeader
                /\ obs.calls[i].request = reqCtx[obs.req].SchedulingRequest
                /\ obs.calls[i].targetPod = reqCtx[obs.req].TargetPod

\* C24 as stated: every HandleRequest that reaches prepareRequest with a
\* valid pool has called each registered PreRequest plugin exactly once, in
\* registration order, and every HandleResponse has called each registered
\* PostResponse plugin exactly once, in registration order, with the
\* x-request-id header as request id.
C24_PluginOrder ==
    /\ (obs.op = "prepare" /\ ValidPool(obs.pool)) =>
          PreRequestCalls(obs.req) = preRequestPlugins
    /\ PostResponseInOrder

\* C24, amended: every HandleRequest that reaches prepareRequest with a
\* valid pool and a scheduling result whose primary profile result has a
\* target pod has called each registered PreRequest plugin exactly once, in
\* registration order; no request ever has PreRequest calls out of that
\* order or repeated; every HandleResponse has called each registered
\* PostResponse plugin exactly once, in registration order, with the
\* x-request-id header as request id.
C24_PluginOrderWithTargetPod ==
    /\ \A r \in Requests : PreRequestCalls(r) \in { << >>, preRequestPlugins }
    /\ (obs.op = "prepare" /\ ValidPool(obs.pool) /\ HasTargetPod(obs.result)) =>
          PreRequestCalls(obs.req) = preRequestPlugins
    /\ PostResponseInOrder

\* a request with an x-request-id went through prepareRequest and
\* HandleResponse: its PreRequest and then its PostResponse plugins ran
C24_Witness ==
    /\ obs.op = "response"
    /\ obs.calls[1].response.RequestId = "x1"
    /\ Len(trace[obs.req]) >= 4
    /\ LastN(trace[obs.req], 4) = preRequestPlugins \o postResponsePlugins

\* the hashes the Score of request r computes
ScoreHashesOf(r) == PrefixHashesOf(reqCtx[r].SchedulingRequest)

\* C25: under every interleaving of HandleRequest executions and whatever
\* x-request-id headers they carry, the PreRequest of a request whose Score
\* wrote its state finds that state, not overwritten and not deleted by
\* another request: the hashes it reads, which are the ones it adds to the
\* indexer, are the hashes its own Score computed.
C25_StateIsolation ==
    (obs.op = "prepare" /\ obs.run /\ Invoked(obs.req, "Score")) =>
       /\ ~obs.read.err
       /\ obs.read.state.PrefixHashes = ScoreHashesOf(obs.req)

\* the hashes of a chain that a server still holds are a leading prefix of it
LeadingPrefixKept(hashes, server) ==
    \A i, j \in 1..Len(hashes) :
       (i < j /\ server \in Get(hashToPods, hashes[j]))
          => server \in Get(hashToPods, hashes[i])

\* C26: in every reachable indexer state, for every replica and every hash
\* chain a PreRequest may have added, the hashes of the chain that are still
\* associated with the replica form a leading prefix of the chain: no
\* earlier block hash is gone while a later one of the same chain is kept.
C26_RetainedChainsUsable ==
    \A server \in Servers, request \in PluginRequests :
       LeadingPrefixKept(PrefixHashesOf(request), server)

\* C27: for every SchedulingResult that Schedule returned without error,
\* HandleRequest completes and returns a value; for a nil result or one
\* without profile results the error is Internal; for a result whose primary
\* profile is missing or names no target pod it is an error too, no target
\* pod is set and no PreRequest plugin runs.
C27_MalformedResultRejected ==
    obs.op = "prepare" =>
       /\ pc[obs.req] = "done"
       /\ ret[obs.req] # NoReturn
       /\ (obs.result.t = "nil" \/ DOMAIN obs.result.ProfileResults = {})
             => ret[obs.req].err.Code = "Internal"
       /\ ~HasTargetPod(obs.result)
             => /\ ret[obs.req].err # NoErr
                /\ reqCtx[obs.req].TargetPod = NoPod
                /\ PreRequestCalls(obs.req) = << >>

\* C28: New replaces only a non-positive lru capacity, by the default, and
\* keeps block size and maximum number of blocks as given; for every such
\* plugin, block size or maximum of zero or below included, and every
\* request, Score returns a score for every pod and does not fault.
C28_ScoreTerminates ==
    obs.op = "newscore" =>
       /\ obs.plugin.capacity = IF obs.config.LRUCapacityPerServer <= 0
                                THEN DefaultLRUCapacityPerServer
                                ELSE obs.config.LRUCapacityPerServer
       /\ obs.plugin.config = obs.config
       /\ obs.fault = "none"
       /\ Len(obs.scores) = Len(obs.pods)
====
